---- MODULE Spec2Model ----
(***************************************************************************)
(* Compute-unit estimation and optimisation (RpcClientExt) on top of the   *)
(* local execution channel (RollUpChannel::process_rollup_transfers).      *)
(*                                                                         *)
(* The SVM engine and the RPC node are the environment: their replies are  *)
(* chosen nondeterministically from the sets below.  Unsigned integers are *)
(* kept at their width as big-endian tuples of 16-bit limbs (u32 = 2       *)
(* limbs, u64 = 4 limbs), so that casts, try_from and saturating_add       *)
(* behave as they do in the program.                                       *)
(***************************************************************************)
EXTENDS Integers, Sequences, FiniteSets, TLC

VARIABLES message, calls, last, input

vars == <<message, calls, last, input>>

(* ---------------------------- bounds ----------------------------------- *)
\* largest batch handed to process_rollup_transfers
MaxBatch == 2
\* number of optimize_* calls made on the one message
MaxCalls == 2

(* ------------------------ fixed-width integers -------------------------- *)
Limb == 2 ^ 16

U32Of(n) == <<n \div Limb, n % Limb>>

U64Of(n) == <<0, 0, n \div Limb, n % Limb>>

U32Max == <<Limb - 1, Limb - 1>>

\* `x as u32` on a u64: keeps the low 32 bits
AsU32(x) == <<x[3], x[4]>>

\* u32::saturating_add
SaturatingAddWrapping(a, b) ==
    LET lo == a[2] + b[2]
        hi == a[1] + b[1] + (lo \div Limb)
    IN  <<hi % Limb, lo % Limb>>

saturating_add(a, b) ==
    LET lo == a[2] + b[2]
        hi == a[1] + b[1] + (lo \div Limb)
    IN  IF hi >= Limb THEN U32Max ELSE <<hi, lo % Limb>>

\* one step of decimal formatting: the u64 divided by ten, and the digit
DivTen(x) ==
    LET c1 == x[1]
        c2 == (c1 % 10) * Limb + x[2]
        c3 == (c2 % 10) * Limb + x[3]
        c4 == (c3 % 10) * Limb + x[4]
    IN  [q |-> <<c1 \div 10, c2 \div 10, c3 \div 10, c4 \div 10>>, r |-> c4 % 10]

RECURSIVE FmtU64(_)
\* `{}` (Display) of a u64
FmtU64(x) ==
    LET d == DivTen(x)
    IN  IF d.q = <<0, 0, 0, 0>> THEN ToString(d.r)
        ELSE FmtU64(d.q) \o ToString(d.r)

FmtUsizeOneBased(i) == ToString(i + 1)

\* `{}` (Display) of a usize index
FmtUsize(i) == ToString(i)

RECURSIVE Join(_, _)
\* [String]::join
Join(strs, sep) ==
    IF Len(strs) = 0 THEN ""
    ELSE IF Len(strs) = 1 THEN strs[1]
    ELSE strs[1] \o sep \o Join(Tail(strs), sep)

(* ------------------------- Option and Result ---------------------------- *)
None == [some |-> FALSE]
Some(v) == [some |-> TRUE, v |-> v]

Ok(v) == [tag |-> "Ok", val |-> v]
Err(kind, msg) == [tag |-> "Err", kind |-> kind, msg |-> msg]
Panic(msg) == [tag |-> "panic", msg |-> msg]

(* ------------------------------ ReturnStruct ---------------------------- *)
ReturnStruct(success, cu, result) ==
    [success |-> success, cu |-> cu, result |-> result]

SuccessZeroUnits(cu) ==
    ReturnStruct(TRUE, U64Of(0),
                 "Transaction executed successfully with " \o FmtU64(cu)
                     \o " compute units")

ReturnStruct_success(cu) ==
    ReturnStruct(TRUE, cu,
                 "Transaction executed successfully with " \o FmtU64(cu)
                     \o " compute units")

ReturnStruct_failure(error) == ReturnStruct(FALSE, U64Of(0), error)

ReturnStruct_no_results ==
    ReturnStruct(FALSE, U64Of(0), "No transaction results returned")

(* ------------------------- the environment's values --------------------- *)
\* unit counts the engine or the RPC node may report (u64)
UnitValues ==
    { U64Of(0),                       \* a trivial program
      U64Of(1000),
      <<0, 0, 2 ^ 15, 0>>,            \* 2^31: doubling leaves the u32 range
      <<0, 0, Limb - 1, Limb - 100>>, \* 2^32 - 100: +150 leaves the u32 range
      <<0, 1, 0, 1000>>,              \* 2^32 + 1000: does not fit a u32
      <<Limb - 1, Limb - 1, Limb - 1, Limb - 1>> }  \* u64::MAX

\* Display strings of TransactionError values
TransactionErrors ==
    { "Error processing Instruction 0: custom program error: 0x1" }

LoadErrors == { "Attempt to load a program that does not exist" }

EngineErrors == { "Account in use" }

LogMessages ==
    { None, Some(<<"Program 11111111111111111111111111111111 invoke [1]",
                   "Program 11111111111111111111111111111111 failed">>) }

StatusOk == [ok |-> TRUE]
StatusErr(e) == [ok |-> FALSE, err |-> e]

Executed(units, logs, status) ==
    [shape |-> "Executed", executed_units |-> units, log_messages |-> logs,
     status |-> status]
FeesOnly(e) == [shape |-> "FeesOnly", load_error |-> e]
EngineErr(e) == [shape |-> "Err", err |-> e]

\* TransactionProcessingResult: Result<ProcessedTransaction, TransactionError>
ProcessingResult ==
    { Executed(u, l, s) : u \in UnitValues, l \in LogMessages,
                          s \in {StatusOk} \cup {StatusErr(e) : e \in TransactionErrors} }
    \cup { FeesOnly(e) : e \in LoadErrors }
    \cup { EngineErr(e) : e \in EngineErrors }

\* load_and_execute_sanitized_transactions: one outcome per transaction, in
\* input order; the channel also provides for an engine that reports none.
load_and_execute_sanitized_transactions(transactions) ==
    [1..Len(transactions) -> ProcessingResult] \cup {<<>>}

(* ------------------------- process_rollup_transfers --------------------- *)
\* the body of the loop over processing_results, i counted from 0
MapResult(i, transaction_result) ==
    IF transaction_result.shape = "Executed" THEN
        LET cu == transaction_result.executed_units
            logs == transaction_result.log_messages
            status == transaction_result.status
        IN  IF status.ok THEN ReturnStruct_success(cu)
            ELSE LET error_msg == "Transaction " \o FmtUsize(i)
                                      \o " failed with error: " \o status.err
                     log_msg == IF logs.some THEN Join(logs.v, "\n") ELSE ""
                 IN  ReturnStruct(FALSE, cu,
                                  error_msg \o "\nLogs:\n" \o log_msg)
    ELSE IF transaction_result.shape = "FeesOnly" THEN
        ReturnStruct_failure("Transaction " \o FmtUsize(i)
                                 \o " failed with error: "
                                 \o transaction_result.load_error
                                 \o ". Only fees were charged.")
    ELSE
        ReturnStruct_failure("Transaction " \o FmtUsize(i) \o " failed: "
                                 \o transaction_result.err)

SentinelForEmptyBatchToo(transactions, processing_results) ==
    LET return_results ==
            [k \in 1..Len(processing_results) |->
                MapResult(k - 1, processing_results[k])]
    IN  IF Len(return_results) = 0
        THEN <<ReturnStruct_no_results>>
        ELSE return_results

NoSentinel(transactions, processing_results) ==
    [k \in 1..Len(processing_results) |-> MapResult(k - 1, processing_results[k])]

process_rollup_transfers(transactions, processing_results) ==
    LET return_results ==
            [k \in 1..Len(processing_results) |->
                MapResult(k - 1, processing_results[k])]
    IN  IF Len(return_results) = 0 /\ Len(transactions) # 0
        THEN <<ReturnStruct_no_results>>
        ELSE return_results

(* ------------------------------ messages -------------------------------- *)
ComputeBudgetId == "ComputeBudget111111111111111111111111111111"
SystemProgramId == "11111111111111111111111111111111"

\* system_instruction::transfer data: discriminant 2 (u32 LE), lamports (u64 LE)
TransferData(lamports) == <<2, 0, 0, 0, lamports, 0, 0, 0, 0, 0, 0, 0>>

CompiledInstruction(program_id_index, accounts, data) ==
    [program_id_index |-> program_id_index, accounts |-> accounts, data |-> data]

InitialMessages ==
    { [account_keys |-> <<"payer", "dest", SystemProgramId>>,
       instructions |-> <<CompiledInstruction(2, <<0, 1>>, TransferData(16))>>],
      [account_keys |-> <<"payer", "dest", "other", SystemProgramId>>,
       instructions |-> <<CompiledInstruction(3, <<0, 1>>, TransferData(16)),
                          CompiledInstruction(3, <<0, 2>>, TransferData(32))>>] }

\* little-endian bytes of a u32
LeBytes(x) == <<x[2] % 256, x[2] \div 256, x[1] % 256, x[1] \div 256>>

\* ComputeBudgetInstruction::set_compute_unit_limit(units): variant 2, u32 LE
set_compute_unit_limit(units) ==
    [program_id |-> ComputeBudgetId, accounts |-> <<>>,
     data |-> <<2>> \o LeBytes(units)]

\* index (from 0, as u8) of the first occurrence of key in keys
position(keys, key) ==
    ((CHOOSE k \in 1..Len(keys) :
        keys[k] = key /\ \A j \in 1..(k - 1) : keys[j] # key) - 1) % 256

\* Message::compile_instruction
compile_instruction(msg, ix) ==
    CompiledInstruction(position(msg.account_keys, ix.program_id),
                        [a \in 1..Len(ix.accounts) |->
                            position(msg.account_keys, ix.accounts[a])],
                        ix.data)

\* Vec::insert(0, x)
InsertFront(seq, x) == <<x>> \o seq

\* account_keys.push(compute_budget::id()); compile; instructions.insert(0, ..)
AddBudgetAppendOnlyIx(msg, limit) ==
    LET pushed == [msg EXCEPT !.account_keys = Append(@, ComputeBudgetId)]
    IN  [pushed EXCEPT !.instructions =
            Append(@, compile_instruction(pushed, set_compute_unit_limit(limit)))]

AddBudgetInstruction(msg, limit) ==
    LET pushed == [msg EXCEPT !.account_keys = Append(@, ComputeBudgetId)]
    IN  [pushed EXCEPT !.instructions =
            InsertFront(@, compile_instruction(pushed, set_compute_unit_limit(limit)))]

(* --------------------------- the RPC node ------------------------------- *)
\* get_latest_blockhash, then simulate_transaction_with_config
RpcReplies ==
    { [blockhash_ok |-> FALSE] }
    \cup { [blockhash_ok |-> TRUE, simulate_ok |-> FALSE] }
    \cup { [blockhash_ok |-> TRUE, simulate_ok |-> TRUE, units_consumed |-> o] :
            o \in {None} \cup {Some(u) : u \in UnitValues} }

(* ------------------------------ RpcClientExt ---------------------------- *)
FailuresByZeroUnits(results) == SelectSeq(results, LAMBDA r : r.cu = U64Of(0))

\* results.iter().filter(|r| !r.success)
Failures(results) == SelectSeq(results, LAMBDA r : ~r.success)

estimate_compute_units_unsigned_tx(transaction, processing_results) ==
    LET results == process_rollup_transfers(<<transaction>>, processing_results)
        failures == Failures(results)
    IN  IF Len(failures) # 0
        THEN LET error_messages ==
                     Join([k \in 1..Len(failures) |-> failures[k].result], "\n")
             IN  Err("ComputeUnitsError",
                     "Transaction simulation failed:\n" \o error_messages)
        ELSE Ok([k \in 1..Len(results) |-> results[k].cu])

NeverZero(consumed_cu) == FALSE

\* consumed_cu == 0
IsZero(consumed_cu) == consumed_cu = <<0, 0, 0, 0>>

estimate_compute_units_msg(msg, rpc) ==
    IF ~rpc.blockhash_ok THEN Err("ClientError", "get_latest_blockhash failed")
    ELSE IF ~rpc.simulate_ok THEN Err("ClientError", "simulate_transaction failed")
    ELSE IF ~rpc.units_consumed.some
        THEN Err("ComputeUnitsError",
                 "Missing Compute Units from transaction simulation.")
    ELSE IF IsZero(rpc.units_consumed.v)
        THEN Err("RpcError", "Transaction simulation failed.")
    ELSE Ok(rpc.units_consumed.v)

\* u32::try_from(u64)
TryFromU64(x) ==
    IF x[1] = 0 /\ x[2] = 0 THEN Ok(<<x[3], x[4]>>)
    ELSE Err("TryFromIntError", "out of range integral type conversion attempted")

optimize_compute_units_unsigned_tx(transaction, processing_results) ==
    LET optimal_cu_vec ==
            estimate_compute_units_unsigned_tx(transaction, processing_results)
    IN  IF optimal_cu_vec.tag = "Err"
        THEN [ret |-> optimal_cu_vec, transaction |-> transaction]
        ELSE IF Len(optimal_cu_vec.val) = 0
        THEN [ret |-> Panic("called Option::unwrap() on a None value"),
              transaction |-> transaction]
        ELSE LET optimal_cu == AsU32(optimal_cu_vec.val[1])
             IN  [ret |-> Ok(optimal_cu),
                  transaction |->
                      AddBudgetInstruction(transaction,
                                           saturating_add(optimal_cu, optimal_cu))]

Margin == 150

OptimizeMsgPushFirst(msg, rpc) ==
    LET estimate == estimate_compute_units_msg(msg, rpc)
        pushed == [msg EXCEPT !.account_keys = Append(@, ComputeBudgetId)]
    IN  IF estimate.tag = "Err" THEN [ret |-> estimate, message |-> msg]
        ELSE LET optimal_cu == TryFromU64(estimate.val)
             IN  IF optimal_cu.tag = "Err"
                 THEN [ret |-> optimal_cu, message |-> pushed]
                 ELSE [ret |-> Ok(optimal_cu.val),
                       message |->
                           AddBudgetInstruction(msg,
                               saturating_add(optimal_cu.val, U32Of(Margin)))]

optimize_compute_units_msg(msg, rpc) ==
    LET estimate == estimate_compute_units_msg(msg, rpc)
    IN  IF estimate.tag = "Err" THEN [ret |-> estimate, message |-> msg]
        ELSE LET optimal_cu == TryFromU64(estimate.val)
             IN  IF optimal_cu.tag = "Err"
                 THEN [ret |-> optimal_cu, message |-> msg]
                 ELSE [ret |-> Ok(optimal_cu.val),
                       message |->
                           AddBudgetInstruction(msg,
                               saturating_add(optimal_cu.val, U32Of(Margin)))]

(* ------------------------------- the system ----------------------------- *)
NoInput == [n |-> 0, processing_results |-> <<>>]

Init ==
    /\ message \in InitialMessages
    /\ calls = 0
    /\ last = [op |-> "none"]
    /\ input = NoInput

EstimateUnsignedTx ==
    \E processing_results \in load_and_execute_sanitized_transactions(<<message>>) :
        /\ last' = [op |-> "estimate_compute_units_unsigned_tx",
                    before |-> message,
                    processing_results |-> processing_results,
                    records |-> process_rollup_transfers(<<message>>,
                                                         processing_results),
                    ret |-> estimate_compute_units_unsigned_tx(message,
                                                               processing_results)]
        /\ UNCHANGED <<message, calls, input>>

EstimateMsg ==
    \E rpc \in RpcReplies :
        /\ last' = [op |-> "estimate_compute_units_msg",
                    before |-> message,
                    rpc |-> rpc,
                    ret |-> estimate_compute_units_msg(message, rpc)]
        /\ UNCHANGED <<message, calls, input>>

OptimizeUnsignedTx ==
    /\ calls < MaxCalls
    /\ \E processing_results \in load_and_execute_sanitized_transactions(<<message>>) :
        LET r == optimize_compute_units_unsigned_tx(message, processing_results)
        IN  /\ message' = r.transaction
            /\ last' = [op |-> "optimize_compute_units_unsigned_tx",
                        before |-> message,
                        processing_results |-> processing_results,
                        records |-> process_rollup_transfers(<<message>>,
                                                             processing_results),
                        ret |-> r.ret]
            /\ calls' = calls + 1
            /\ UNCHANGED input

OptimizeMsg ==
    /\ calls < MaxCalls
    /\ \E rpc \in RpcReplies :
        LET r == optimize_compute_units_msg(message, rpc)
        IN  /\ message' = r.message
            /\ last' = [op |-> "optimize_compute_units_msg",
                        before |-> message,
                        rpc |-> rpc,
                        ret |-> r.ret]
            /\ calls' = calls + 1
            /\ UNCHANGED input

Next == EstimateUnsignedTx \/ EstimateMsg \/ OptimizeUnsignedTx \/ OptimizeMsg

Spec == Init /\ [][Next]_vars

(* ------------- process_rollup_transfers as a function of its inputs ------ *)
\* a batch of n transactions and what the engine reports for it
InitBatch ==
    /\ message \in InitialMessages
    /\ calls = 0
    /\ last = [op |-> "none"]
    /\ \E n \in 0..MaxBatch :
        \E processing_results \in
                load_and_execute_sanitized_transactions([k \in 1..n |-> message]) :
            input = [n |-> n, processing_results |-> processing_results]

\* RollUpChannel::process_rollup_transfers on the batch
ProcessBatch ==
    /\ last.op = "none"
    /\ LET transactions == [k \in 1..input.n |-> message]
       IN  last' = [op |-> "process_rollup_transfers",
                    ret |-> process_rollup_transfers(transactions,
                                                     input.processing_results)]
    /\ UNCHANGED <<message, calls, input>>

NextBatch == ProcessBatch

SpecBatch == InitBatch /\ [][NextBatch]_vars

(* ================================ claims ================================ *)
\* the limit a set-compute-unit-limit instruction carries, read back from its bytes
DecodeLimit(data) == <<data[5] * 256 + data[4], data[3] * 256 + data[2]>>

\* instruction ix of msg invokes the budget program with a set-limit payload
IsSetLimit(msg, ix) ==
    /\ msg.account_keys[ix.program_id_index + 1] = ComputeBudgetId
    /\ Len(ix.data) = 5
    /\ ix.data[1] = 2

\* x + y as a u64, x and y being u32: never overflows
ExactSum(x, y) ==
    LET lo == x[2] + y[2]
        hi == x[1] + y[1] + (lo \div Limb)
    IN  <<0, hi \div Limb, hi % Limb, lo % Limb>>

\* the u32 nearest to a u64 from below
Clamp(x) == IF x[1] # 0 \/ x[2] # 0 THEN <<Limb - 1, Limb - 1>> ELSE <<x[3], x[4]>>

\* C1: estimate_compute_units_unsigned_tx returns an error exactly when some
\* record of the underlying batch call has success = FALSE; when it succeeds it
\* returns the cu of every record in record order, and when it fails it
\* returns no compute-unit values.
C1_EstimateFailsIffARecordFailed ==
    last.op = "estimate_compute_units_unsigned_tx" =>
        LET recs == last.records
            anyFailed == \E k \in 1..Len(recs) : ~recs[k].success
        IN  /\ (last.ret.tag = "Err") <=> anyFailed
            /\ (last.ret.tag = "Ok") <=> ~anyFailed
            /\ last.ret.tag = "Ok" =>
                   /\ Len(last.ret.val) = Len(recs)
                   /\ \A k \in 1..Len(recs) : last.ret.val[k] = recs[k].cu
            /\ last.ret.tag = "Err" => "val" \notin DOMAIN last.ret

\* an estimate that failed on a record which failed after consuming units
C1_Witness ==
    /\ last.op = "estimate_compute_units_unsigned_tx"
    /\ last.ret.tag = "Err"
    /\ Len(last.records) = 1
    /\ ~last.records[1].success
    /\ last.records[1].cu = <<0, 0, 0, 1000>>

\* C2: for a batch of N transactions process_rollup_transfers returns N records
\* when N > 0 and the engine reports at least one outcome, exactly the one
\* sentinel record when N > 0 and the engine reports none, and the empty list
\* when N = 0.
C2_RecordCount ==
    last.op = "process_rollup_transfers" =>
        LET N == input.n
            outcomes == Len(input.processing_results)
        IN  /\ (N > 0 /\ outcomes > 0) => Len(last.ret) = N
            /\ (N > 0 /\ outcomes = 0) =>
                   last.ret = <<[success |-> FALSE, cu |-> <<0, 0, 0, 0>>,
                                 result |-> "No transaction results returned"]>>
            /\ N = 0 => last.ret = <<>>

\* the empty batch has been processed
C2_Witness ==
    /\ last.op = "process_rollup_transfers"
    /\ input.n = 0
    /\ Len(last.ret) = 0

\* C3: after a successful optimize_compute_units_unsigned_tx, instruction 0 is
\* a set-compute-unit-limit instruction whose limit is twice the returned
\* estimate, saturating at u32::MAX; the instructions present before follow in
\* their order; the address list is one longer, ending in the budget program.
C3_UnsignedTxBudgetInstruction ==
    (last.op = "optimize_compute_units_unsigned_tx" /\ last.ret.tag = "Ok") =>
        LET estimate == last.ret.val
            ix == message.instructions[1]
        IN  /\ IsSetLimit(message, ix)
            /\ DecodeLimit(ix.data) = Clamp(ExactSum(estimate, estimate))
            /\ estimate = <<0, 1000>> => DecodeLimit(ix.data) = <<0, 2000>>
            /\ Tail(message.instructions) = last.before.instructions
            /\ Len(message.account_keys) = Len(last.before.account_keys) + 1
            /\ message.account_keys =
                   Append(last.before.account_keys, ComputeBudgetId)

\* a two-instruction transaction optimised with a saturated limit
C3_Witness ==
    /\ last.op = "optimize_compute_units_unsigned_tx"
    /\ last.ret.tag = "Ok"
    /\ last.ret.val = <<2 ^ 15, 0>>
    /\ Len(last.before.instructions) = 2
    /\ DecodeLimit(message.instructions[1].data) = <<Limb - 1, Limb - 1>>

\* C4 as stated: after a successful optimize_compute_units_msg, instruction 0
\* is a set-compute-unit-limit instruction whose limit is exactly the returned
\* estimate + 150, the budget program's address has been appended, and the
\* value returned is the estimate, not the limit.
C4_LimitIsEstimatePlus150 ==
    (last.op = "optimize_compute_units_msg" /\ last.ret.tag = "Ok") =>
        LET estimate == last.ret.val
            ix == message.instructions[1]
        IN  /\ IsSetLimit(message, ix)
            /\ <<0, 0>> \o DecodeLimit(ix.data) = ExactSum(estimate, <<0, 150>>)
            /\ message.account_keys =
                   Append(last.before.account_keys, ComputeBudgetId)
            /\ <<0, 0>> \o estimate = last.rpc.units_consumed.v

\* C4 (amended): the limit is the returned estimate + 150, saturating at
\* u32::MAX; the rest as stated.
C4_LimitIsEstimatePlus150Saturating ==
    (last.op = "optimize_compute_units_msg" /\ last.ret.tag = "Ok") =>
        LET estimate == last.ret.val
            ix == message.instructions[1]
        IN  /\ IsSetLimit(message, ix)
            /\ DecodeLimit(ix.data) = Clamp(ExactSum(estimate, <<0, 150>>))
            /\ estimate = <<0, 1000>> => DecodeLimit(ix.data) = <<0, 1150>>
            /\ Tail(message.instructions) = last.before.instructions
            /\ message.account_keys =
                   Append(last.before.account_keys, ComputeBudgetId)
            /\ <<0, 0>> \o estimate = last.rpc.units_consumed.v

\* a message optimised from an estimate within 150 of u32::MAX
C4_Witness ==
    /\ last.op = "optimize_compute_units_msg"
    /\ last.ret.tag = "Ok"
    /\ last.ret.val = <<Limb - 1, Limb - 100>>
    /\ DecodeLimit(message.instructions[1].data) = <<Limb - 1, Limb - 1>>

\* C5: estimate_compute_units_msg fails whenever the simulation response (the
\* call itself having succeeded) carries no unit count or a count of 0, and
\* returns the reported count unchanged when it is present and above 0.
C5_EstimateMsgZeroOrMissingFails ==
    (/\ last.op = "estimate_compute_units_msg"
     /\ last.rpc.blockhash_ok
     /\ last.rpc.simulate_ok) =>
        LET units == last.rpc.units_consumed
        IN  /\ (~units.some \/ units.v = <<0, 0, 0, 0>>) => last.ret.tag = "Err"
            /\ (units.some /\ units.v # <<0, 0, 0, 0>>) =>
                   (last.ret.tag = "Ok" /\ last.ret.val = units.v)

\* a simulation that answered with a count of 0 and was turned into a failure
C5_Witness ==
    /\ last.op = "estimate_compute_units_msg"
    /\ last.rpc.blockhash_ok
    /\ last.rpc.simulate_ok
    /\ last.rpc.units_consumed = [some |-> TRUE, v |-> <<0, 0, 0, 0>>]
    /\ last.ret.tag = "Err"

\* C6: every record process_rollup_transfers returns has a non-empty detail
\* when success = FALSE, and when success = TRUE its cu is the executed-units
\* value the engine reported for that transaction (which may be 0).
C6_RecordInvariant ==
    last.op = "process_rollup_transfers" =>
        \A k \in 1..Len(last.ret) :
            /\ ~last.ret[k].success => Len(last.ret[k].result) > 0
            /\ last.ret[k].success =>
                   /\ k <= Len(input.processing_results)
                   /\ input.processing_results[k].shape = "Executed"
                   /\ last.ret[k].cu = input.processing_results[k].executed_units

\* a batch with a record of a successful transaction that used units, next to a
\* failed one
C6_Witness ==
    /\ last.op = "process_rollup_transfers"
    /\ Len(last.ret) = 2
    /\ last.ret[1].success
    /\ last.ret[1].cu = <<0, 0, 0, 1000>>
    /\ ~last.ret[2].success

\* the outcome of a transaction that ran to completion
AllWell ==
    [shape |-> "Executed", executed_units |-> <<0, 0, 0, 1000>>,
     log_messages |-> [some |-> FALSE], status |-> [ok |-> TRUE]]

\* s begins with prefix
HasPrefix(s, prefix) ==
    Len(s) >= Len(prefix) /\ SubSeq(s, 1, Len(prefix)) = prefix

\* C7: the i-th engine outcome decides the i-th record by its shape: Executed
\* with ok status gives success with the executed units; Executed with an
\* error status gives failure carrying the executed units; FeesOnly and a
\* top-level engine error give failure with 0 units; a failed record's detail
\* names index i; and the record is the one the batch would have produced had
\* every other transaction of it succeeded, so no other transaction's outcome
\* changes it.
C7_OutcomeMapping ==
    last.op = "process_rollup_transfers" =>
        \A k \in 1..Len(input.processing_results) :
            LET o == input.processing_results[k]
                r == last.ret[k]
                executed == o.shape = "Executed"
            IN  /\ (executed /\ o.status.ok) =>
                       (r.success /\ r.cu = o.executed_units)
                /\ (executed /\ ~o.status.ok) =>
                       (~r.success /\ r.cu = o.executed_units)
                /\ o.shape = "FeesOnly" => (~r.success /\ r.cu = <<0, 0, 0, 0>>)
                /\ o.shape = "Err" => (~r.success /\ r.cu = <<0, 0, 0, 0>>)
                /\ ~r.success =>
                       HasPrefix(r.result,
                                 "Transaction " \o ToString(k - 1) \o " failed")
                /\ process_rollup_transfers(
                       [t \in 1..input.n |-> message],
                       [j \in 1..Len(input.processing_results) |->
                           IF j = k THEN o ELSE AllWell])[k] = r

\* a transaction that failed after consuming units, second in its batch, after
\* a fees-only one
C7_Witness ==
    /\ last.op = "process_rollup_transfers"
    /\ Len(input.processing_results) = 2
    /\ input.processing_results[1].shape = "FeesOnly"
    /\ input.processing_results[2].shape = "Executed"
    /\ ~input.processing_results[2].status.ok
    /\ last.ret[2].cu = <<0, 0, 0, 1000>>
    /\ HasPrefix(last.ret[2].result, "Transaction 1 failed with error")

\* C8 as stated: the instruction list holds at most one set-compute-unit-limit
\* instruction, and it is at position 0.
C8_AtMostOneBudgetInstructionAtFront ==
    LET budget == { k \in 1..Len(message.instructions) :
                        IsSetLimit(message, message.instructions[k]) }
    IN  Cardinality(budget) <= 1 /\ budget \subseteq {1}

\* a u64 that a u32 cannot hold
TooWide(x) == x[1] # 0 \/ x[2] # 0

\* C9 as stated: in both optimize operations an estimate that does not fit 32
\* bits makes the call fail with a range error; a value returned by
\* optimize_compute_units_unsigned_tx is the first record's unit count.
C9_UnrepresentableEstimateFails ==
    /\ (/\ last.op = "optimize_compute_units_msg"
        /\ last.rpc.blockhash_ok
        /\ last.rpc.simulate_ok
        /\ last.rpc.units_consumed.some
        /\ TooWide(last.rpc.units_consumed.v)) =>
           (last.ret.tag = "Err" /\ last.ret.kind = "TryFromIntError")
    /\ (/\ last.op = "optimize_compute_units_unsigned_tx"
        /\ \A k \in 1..Len(last.records) : last.records[k].success
        /\ Len(last.records) > 0
        /\ TooWide(last.records[1].cu)) =>
           (last.ret.tag = "Err" /\ last.ret.kind = "TryFromIntError")
    /\ (last.op = "optimize_compute_units_unsigned_tx" /\ last.ret.tag = "Ok") =>
           <<0, 0>> \o last.ret.val = last.records[1].cu

\* C10: when an optimize operation returns an error, the instruction list and
\* the address list are as they were before the call.
C10_ErrorLeavesMessageUntouched ==
    (/\ last.op \in {"optimize_compute_units_unsigned_tx",
                     "optimize_compute_units_msg"}
     /\ last.ret.tag = "Err") =>
        /\ message.instructions = last.before.instructions
        /\ message.account_keys = last.before.account_keys

\* optimize_compute_units_msg refused an estimate that does not fit a u32
C10_Witness ==
    /\ last.op = "optimize_compute_units_msg"
    /\ last.ret.tag = "Err"
    /\ last.ret.kind = "TryFromIntError"
    /\ message = last.before

\* C11: whenever estimate_compute_units_unsigned_tx succeeds its list is
\* non-empty, so optimize_compute_units_unsigned_tx never panics reading the
\* first element: the one-transaction batch yields at least one record or the
\* failing sentinel, and the sentinel makes the estimate an error first.
C11_FirstElementAlwaysThere ==
    /\ (last.op = "estimate_compute_units_unsigned_tx" /\ last.ret.tag = "Ok") =>
           Len(last.ret.val) > 0
    /\ last.op \in {"estimate_compute_units_unsigned_tx",
                    "optimize_compute_units_unsigned_tx"} =>
           /\ Len(last.records) > 0
           /\ Len(last.processing_results) = 0 =>
                  (/\ last.records = <<[success |-> FALSE, cu |-> <<0, 0, 0, 0>>,
                                        result |-> "No transaction results returned"]>>
                   /\ last.ret.tag = "Err")
    /\ last.op = "optimize_compute_units_unsigned_tx" =>
           /\ last.ret.tag # "panic"
           /\ last.ret.tag \in {"Ok", "Err"}

\* the engine reported nothing for the transaction being optimised, and the
\* call came back with an error
C11_Witness ==
    /\ last.op = "optimize_compute_units_unsigned_tx"
    /\ Len(last.processing_results) = 0
    /\ Len(last.records) = 1
    /\ last.ret.tag = "Err"
    /\ message = last.before

====
